---- MODULE Spec2Model ----
(***************************************************************************)
(* Model of web.py: the leader (rank 0) serves /api/v1/generate over HTTP  *)
(* (server-sent events) and over WebSocket from one asyncio event loop,    *)
(* broadcasts every request's Command to the followers and streams the     *)
(* token events of its local generation call; every other rank runs the    *)
(* follower loop.                                                          *)
(*                                                                         *)
(* A leader task is suspended only at an await.  pc[c] names the await the *)
(* task of connection c is suspended at; one action is the completion of   *)
(* that await together with all the synchronous code up to the next one.   *)
(* dist.broadcast_object_list is a blocking collective call: the leader's  *)
(* call returns when every follower is inside its own call, and while the  *)
(* leader is inside it the event loop runs no other task.                  *)
(***************************************************************************)
EXTENDS Integers, Sequences, FiniteSets, TLC

\* ---- bounds of the model ----
NConns == 2
NFollowers == 1
ShortLen == 2
LongLen == 12
MaxPending == 1

\* ---- program constants ----
MaxGenLen == 100028
TemperatureTenths == 7
TopP == 1
MaxUnacked == 10

Conns == 1..NConns
Followers == 1..NFollowers
Prompts == {"Hello", "Bye"}
NoConn == 0
None == "None"

VARIABLES
    long,         \* TRUE: a single connection whose generation can be long
    kind,         \* kind[c]: "http", "ws" or "absent"
    pc,           \* pc[c]: the await the task of c is suspended at
    text,         \* text[c]: the prompt read from the request
    gen,          \* gen[c]: state of the probs_stream generator of c
    pos,          \* pos[c]: token events pulled from the generator of c
    cur,          \* cur[c]: the loop variables (token, word, prob, place, top5)
    frames,       \* frames[c]: frames written to the transport of c
    closed,       \* closed[c]: number of websocket.close() calls completed
    send_tokens,
    recv_tokens,
    alive,        \* alive[c]: the client of c is still connected
    acks,         \* acks[c]: acknowledgments sent by the client, not yet read
    blocked,      \* connection whose task is inside broadcast_object_list
    bcastLog,     \* Commands broadcast so far, in order
    leaderCalls,  \* probs_stream calls started on the leader, in order
    fpc,          \* fpc[f]: "recv" (in broadcast_object_list) or "gen"
    config,       \* config[f]: the 4-slot buffer of the current iteration
    fCalls,       \* generate calls started on follower f, in order
    fFailed,      \* fFailed[f]: the rounds whose generate call raised on f
    broken,       \* broken[c]: a transport operation of c has raised
    bFailed       \* bFailed[f]: a broadcast_object_list call has raised on f

vars == <<long, kind, pc, text, gen, pos, cur, frames, closed, send_tokens,
          recv_tokens, alive, acks, blocked, bcastLog, leaderCalls, fpc,
          config, fCalls, fFailed, broken, bFailed>>

Terminal == {"done", "terr", "gerr", "rerr", "berr", "absent"}

\* ---- the generation engine, as web.py sees it ----

\* Longest generation the engine produces in this model.
Cap == IF long THEN LongLen ELSE ShortLen

\* The i-th tuple (token, word, prob, place, top5) of the call of connection c.
TokenEvent(c, i) == <<100 * c + i, 200 + i, 300 + i, 400 + i, 500 + i>>

NoEvent == <<0, 0, 0, 0, 0>>

\* ---- Commands ----

\* The list handed to dist.broadcast_object_list by the leader.
Command(t) == <<t, MaxGenLen, TemperatureTenths, TopP>>

\* The keyword arguments of the leader's generator.probs_stream call.
LeaderArgs(t) ==
    [prompt |-> t, max_gen_len |-> MaxGenLen,
     temperature |-> TemperatureTenths, top_p |-> TopP]

\* FollowerArgs with config[2] and config[3] taken in the other order.
FollowerArgsSwapped(cfg) ==
    [prompt |-> cfg[1], max_gen_len |-> cfg[2],
     temperature |-> cfg[4], top_p |-> cfg[3]]

\* The arguments of the follower's generator.generate call.
FollowerArgs(cfg) ==
    [prompt |-> cfg[1], max_gen_len |-> cfg[2],
     temperature |-> cfg[3], top_p |-> cfg[4]]

EmptyConfig == <<None, None, None, None>>

\* ---- frames ----

\* json.dumps({"token": .., "word": .., "probability": .., "place": .., "top5": ..})
Json(ev) ==
    [token |-> ev[1], word |-> ev[2], probability |-> ev[3],
     place |-> ev[4], top5 |-> ev[5]]

SseFrame(ev) == [data |-> Json(ev)]

EosFrame == [data |-> [eos |-> "<EOS>"]]

WsFrame(ev) == Json(ev)

\* ---- flow control ----

\* NeedAck with the threshold one lower: an acknowledgment is awaited as soon
\* as 10 frames are unacknowledged.
NeedAckEager(s, r) == r < s - (MaxUnacked - 1)

\* NeedAck with the loop's test off by one.
NeedAckLate(s, r) == r < s - (MaxUnacked + 1)

\* NeedAck with an acknowledgment awaited for every frame.
NeedAckEveryFrame(s, r) == r < s

\* The condition of the while loop after a send.
NeedAck(s, r) == r < s - MaxUnacked

\* Everything but the connections that exist: no request has been read, no
\* Command broadcast, every follower is in its first Broadcast receive.
InitRest ==
    /\ pc = [c \in Conns |->
               CASE kind[c] = "http" -> "json"
                 [] kind[c] = "ws" -> "accept"
                 [] OTHER -> "absent"]
    /\ text = [c \in Conns |-> None]
    /\ gen = [c \in Conns |-> "none"]
    /\ pos = [c \in Conns |-> 0]
    /\ cur = [c \in Conns |-> NoEvent]
    /\ frames = [c \in Conns |-> <<>>]
    /\ closed = [c \in Conns |-> 0]
    /\ send_tokens = [c \in Conns |-> 0]
    /\ recv_tokens = [c \in Conns |-> 0]
    /\ alive = [c \in Conns |-> kind[c] # "absent"]
    /\ acks = [c \in Conns |-> 0]
    /\ blocked = NoConn
    /\ bcastLog = <<>>
    /\ leaderCalls = <<>>
    /\ fpc = [f \in Followers |-> "recv"]
    /\ config = [f \in Followers |-> EmptyConfig]
    /\ fCalls = [f \in Followers |-> <<>>]
    /\ fFailed = [f \in Followers |-> {}]
    /\ broken = [c \in Conns |-> FALSE]
    /\ bFailed = [f \in Followers |-> FALSE]

\* One connection, HTTP or WebSocket, whose generation can be long.
SessionInit ==
    /\ long = TRUE
    /\ kind \in [Conns -> {"http", "ws", "absent"}]
    /\ \A c \in Conns : kind[c] = "absent" <=> c # 1
    /\ InitRest

\* Either that, or every connection exists and generations are short.
Init ==
    \/ SessionInit
    \/ /\ long = FALSE
       /\ kind \in [Conns -> {"http", "ws"}]
       /\ InitRest

\* ---- the generator of one connection (for ... in generator.probs_stream) ----

\* NextPos with every second event skipped.
NextPosSkip(p) == p + 2

\* Number of events pulled after one more successful next().
NextPos(p) == p + 1

\* OnEngineError with the failure taken for the end of the sequence.
OnEngineErrorAsEnd(stop) == stop

\* The state of a task whose next() raised: nothing catches the exception,
\* it leaves the for loop and the task ends.
OnEngineError(stop) == "gerr"

\* One next() on the generator of c: a token event, exhaustion, or a failure.
\* tok, stop: the awaits the task reaches in the first two cases.
Pull(c, tok, stop) ==
    \/ /\ pos[c] < Cap
       /\ pos' = [pos EXCEPT ![c] = NextPos(pos[c])]
       /\ cur' = [cur EXCEPT ![c] = TokenEvent(c, pos'[c])]
       /\ gen' = [gen EXCEPT ![c] = "running"]
       /\ pc' = [pc EXCEPT ![c] = tok]
    \/ /\ gen' = [gen EXCEPT ![c] = "exhausted"]
       /\ pc' = [pc EXCEPT ![c] = stop]
       /\ UNCHANGED <<pos, cur>>
    \/ /\ gen' = [gen EXCEPT ![c] = "raised"]
       /\ pc' = [pc EXCEPT ![c] = OnEngineError(stop)]
       /\ UNCHANGED <<pos, cur>>

\* generator.probs_stream(text, max_gen_len=100028, temperature=0.7, top_p=1)
StartCall(c) ==
    leaderCalls' = Append(leaderCalls, [conn |-> c, args |-> LeaderArgs(text[c])])

\* ---- the broadcast ----

\* Receive with the third slot filled from the fourth object sent.
ReceiveShifted(buf, sent) ==
    [i \in DOMAIN buf |-> IF i = 3 THEN sent[4] ELSE sent[i]]

\* What broadcast_object_list leaves in a receiver's buffer.
Receive(buf, sent) == [i \in DOMAIN buf |-> sent[i]]

\* Rendezvous with the Command broadcast a second time.
RendezvousTwice(c) ==
    /\ blocked = c
    /\ \A f \in Followers : fpc[f] = "recv"
    /\ bcastLog' = bcastLog \o << [conn |-> c, cmd |-> Command(text[c])],
                                  [conn |-> c, cmd |-> Command(text[c])] >>
    /\ config' = [f \in Followers |-> Receive(config[f], Command(text[c]))]
    /\ fCalls' = [f \in Followers |-> Append(fCalls[f], FollowerArgs(config'[f]))]
    /\ fpc' = [f \in Followers |-> "gen"]
    /\ blocked' = NoConn
    /\ UNCHANGED <<fFailed, bFailed>>

\* The rendezvous: the leader's call returns, every follower's call returns
\* with the Command in its buffer and goes on to generator.generate(...).
Rendezvous(c) ==
    /\ blocked = c
    /\ \A f \in Followers : fpc[f] = "recv"
    /\ bcastLog' = Append(bcastLog, [conn |-> c, cmd |-> Command(text[c])])
    /\ config' = [f \in Followers |-> Receive(config[f], Command(text[c]))]
    /\ fCalls' = [f \in Followers |-> Append(fCalls[f], FollowerArgs(config'[f]))]
    /\ fpc' = [f \in Followers |-> "gen"]
    /\ blocked' = NoConn
    /\ UNCHANGED <<fFailed, bFailed>>

\* broadcast_object_list raises in the handler of c (line 120 or 140): the
\* exception ends the handler, nothing of the request is generated or sent,
\* and the event loop goes on with the other tasks.
LeaderBroadcastFail(c) ==
    /\ blocked = c /\ pc[c] = "bcast"
    /\ pc' = [pc EXCEPT ![c] = "berr"]
    /\ blocked' = NoConn
    /\ UNCHANGED <<long, kind, text, gen, pos, cur, frames, closed, send_tokens,
                   recv_tokens, alive, acks, bcastLog, leaderCalls, fpc,
                   config, fCalls, fFailed, broken, bFailed>>

\* OnTransportError with the exception swallowed and the loop continued.
OnTransportErrorSwallowed == "sleep"

\* The state of a task whose transport operation raised: no handler catches
\* the exception, the task ends.
OnTransportError == "terr"

\* BeforeDispatch with the request also read after the broadcast.
BeforeDispatchLate == {"json", "accept", "prompt", "resp", "send"}

\* The awaits at which the request is read: request.json(), accept() and
\* receive_text(), all before the broadcast is called.
BeforeDispatch == {"json", "accept", "prompt"}

\* ---- HTTP: generate (lines 117-133) ----

\* request.json() returns: text is read and the broadcast is called.
HttpJson(c) ==
    /\ blocked = NoConn /\ kind[c] = "http" /\ pc[c] = "json" /\ alive[c]
    /\ \E t \in Prompts : text' = [text EXCEPT ![c] = t]
    /\ pc' = [pc EXCEPT ![c] = "bcast"]
    /\ blocked' = c
    /\ UNCHANGED <<long, kind, gen, pos, cur, frames, closed, send_tokens,
                   recv_tokens, alive, acks, bcastLog, leaderCalls, fpc,
                   config, fCalls, fFailed, broken, bFailed>>

\* request.json() or ["text"] raises: the handler ends before the broadcast.
HttpJsonFail(c) ==
    /\ blocked = NoConn /\ kind[c] = "http" /\ pc[c] \in BeforeDispatch
    /\ pc' = [pc EXCEPT ![c] = "rerr"]
    /\ UNCHANGED <<long, kind, text, gen, pos, cur, frames, closed, send_tokens,
                   recv_tokens, alive, acks, blocked, bcastLog, leaderCalls,
                   fpc, config, fCalls, fFailed, broken, bFailed>>

\* The broadcast returns and the handler returns EventSourceResponse(...):
\* the body of generate_stream has not started.
HttpBroadcast(c) ==
    /\ kind[c] = "http" /\ pc[c] = "bcast"
    /\ Rendezvous(c)
    /\ pc' = [pc EXCEPT ![c] = "resp"]
    /\ UNCHANGED <<long, kind, text, gen, pos, cur, frames, closed, send_tokens,
                   recv_tokens, alive, acks, leaderCalls, broken>>

\* The response asks generate_stream for its next item: the first time the
\* body starts and calls probs_stream, later it returns from sleep(0); then
\* the next token event is pulled and yielded, or "<EOS>" is yielded.
SseNext(c) ==
    /\ blocked = NoConn /\ kind[c] = "http" /\ pc[c] \in {"resp", "sleep"}
    /\ IF pc[c] = "resp" THEN StartCall(c) ELSE UNCHANGED leaderCalls
    /\ Pull(c, "yield", "yieldeos")
    /\ UNCHANGED <<long, kind, text, frames, closed, send_tokens, recv_tokens,
                   alive, acks, blocked, bcastLog, fpc, config, fCalls, fFailed,
                   broken, bFailed>>

\* The yielded token frame is written to the client.
SseWrite(c) ==
    /\ blocked = NoConn /\ kind[c] = "http" /\ pc[c] = "yield" /\ alive[c]
    /\ frames' = [frames EXCEPT ![c] = Append(@, SseFrame(cur[c]))]
    /\ pc' = [pc EXCEPT ![c] = "sleep"]
    /\ UNCHANGED <<long, kind, text, gen, pos, cur, closed, send_tokens,
                   recv_tokens, alive, acks, blocked, bcastLog, leaderCalls,
                   fpc, config, fCalls, fFailed, broken, bFailed>>

\* AfterEos with the sentinel yielded again.
AfterEosAgain == "yieldeos"

\* The state of generate_stream after its last yield: it returns.
AfterEos == "done"

\* The yielded sentinel is written and the generator returns.
SseWriteEos(c) ==
    /\ blocked = NoConn /\ kind[c] = "http" /\ pc[c] = "yieldeos" /\ alive[c]
    /\ frames' = [frames EXCEPT ![c] = Append(@, EosFrame)]
    /\ pc' = [pc EXCEPT ![c] = AfterEos]
    /\ UNCHANGED <<long, kind, text, gen, pos, cur, closed, send_tokens,
                   recv_tokens, alive, acks, blocked, bcastLog, leaderCalls,
                   fpc, config, fCalls, fFailed, broken, bFailed>>

\* The client is gone: the response is cancelled and the generator closed.
SseCancel(c) ==
    /\ blocked = NoConn /\ kind[c] = "http" /\ ~alive[c]
    /\ pc[c] \in {"resp", "yield", "sleep", "yieldeos"}
    /\ pc' = [pc EXCEPT ![c] = OnTransportError]
    /\ broken' = [broken EXCEPT ![c] = TRUE]
    /\ UNCHANGED <<long, kind, text, gen, pos, cur, frames, closed, send_tokens,
                   recv_tokens, alive, acks, blocked, bcastLog, leaderCalls,
                   fpc, config, fCalls, fFailed, bFailed>>

\* ---- WebSocket: generate_ws (lines 135-160) ----

\* websocket.accept() returns.
WsAccept(c) ==
    /\ blocked = NoConn /\ kind[c] = "ws" /\ pc[c] = "accept" /\ alive[c]
    /\ pc' = [pc EXCEPT ![c] = "prompt"]
    /\ UNCHANGED <<long, kind, text, gen, pos, cur, frames, closed, send_tokens,
                   recv_tokens, alive, acks, blocked, bcastLog, leaderCalls,
                   fpc, config, fCalls, fFailed, broken, bFailed>>

\* receive_text() returns the prompt and the broadcast is called.
WsPrompt(c) ==
    /\ blocked = NoConn /\ kind[c] = "ws" /\ pc[c] = "prompt" /\ alive[c]
    /\ \E t \in Prompts : text' = [text EXCEPT ![c] = t]
    /\ pc' = [pc EXCEPT ![c] = "bcast"]
    /\ blocked' = c
    /\ UNCHANGED <<long, kind, gen, pos, cur, frames, closed, send_tokens,
                   recv_tokens, alive, acks, bcastLog, leaderCalls, fpc,
                   config, fCalls, fFailed, broken, bFailed>>

\* The client left before its prompt arrived: accept() or receive_text()
\* raises and the handler ends before the broadcast.
WsPromptFail(c) ==
    /\ blocked = NoConn /\ kind[c] = "ws" /\ pc[c] \in BeforeDispatch
    /\ ~alive[c]
    /\ pc' = [pc EXCEPT ![c] = "rerr"]
    /\ UNCHANGED <<long, kind, text, gen, pos, cur, frames, closed, send_tokens,
                   recv_tokens, alive, acks, blocked, bcastLog, leaderCalls,
                   fpc, config, fCalls, fFailed, broken, bFailed>>

\* The broadcast returns; the counters are set, probs_stream is called and
\* the first token event is pulled, all without an await.
WsBroadcast(c) ==
    /\ kind[c] = "ws" /\ pc[c] = "bcast"
    /\ Rendezvous(c)
    /\ recv_tokens' = [recv_tokens EXCEPT ![c] = 0]
    /\ send_tokens' = [send_tokens EXCEPT ![c] = 0]
    /\ StartCall(c)
    /\ Pull(c, "send", "close")
    /\ UNCHANGED <<long, kind, text, frames, closed, alive, acks, broken>>

\* AfterCount with the while loop left out.
AfterCountNoLoop(s, r) == "sleep"

\* The await the task reaches after the while loop's test.
AfterCount(s, r) == IF NeedAck(s, r) THEN "ack" ELSE "sleep"

\* send_text() returns: the frame is written, send_tokens is counted and the
\* while loop is entered.
WsSent(c) ==
    /\ blocked = NoConn /\ kind[c] = "ws" /\ pc[c] = "send" /\ alive[c]
    /\ frames' = [frames EXCEPT ![c] = Append(@, WsFrame(cur[c]))]
    /\ send_tokens' = [send_tokens EXCEPT ![c] = @ + 1]
    /\ pc' = [pc EXCEPT ![c] = AfterCount(send_tokens'[c], recv_tokens[c])]
    /\ UNCHANGED <<long, kind, text, gen, pos, cur, closed, recv_tokens, alive,
                   acks, blocked, bcastLog, leaderCalls, fpc, config, fCalls,
                   fFailed, broken, bFailed>>

\* send_text() raises: the client is gone.
WsSendFail(c) ==
    /\ blocked = NoConn /\ kind[c] = "ws" /\ pc[c] = "send" /\ ~alive[c]
    /\ pc' = [pc EXCEPT ![c] = OnTransportError]
    /\ broken' = [broken EXCEPT ![c] = TRUE]
    /\ UNCHANGED <<long, kind, text, gen, pos, cur, frames, closed, send_tokens,
                   recv_tokens, alive, acks, blocked, bcastLog, leaderCalls,
                   fpc, config, fCalls, fFailed, bFailed>>

\* receive_text() returns an acknowledgment: it is counted and the while
\* loop's test is made again.
WsAck(c) ==
    /\ blocked = NoConn /\ kind[c] = "ws" /\ pc[c] = "ack" /\ acks[c] > 0
    /\ acks' = [acks EXCEPT ![c] = @ - 1]
    /\ recv_tokens' = [recv_tokens EXCEPT ![c] = @ + 1]
    /\ pc' = [pc EXCEPT ![c] = AfterCount(send_tokens[c], recv_tokens'[c])]
    /\ UNCHANGED <<long, kind, text, gen, pos, cur, frames, closed, send_tokens,
                   alive, blocked, bcastLog, leaderCalls, fpc, config, fCalls,
                   fFailed, broken, bFailed>>

\* receive_text() raises: nothing is left to read and the client is gone.
WsAckFail(c) ==
    /\ blocked = NoConn /\ kind[c] = "ws" /\ pc[c] = "ack"
    /\ acks[c] = 0 /\ ~alive[c]
    /\ pc' = [pc EXCEPT ![c] = OnTransportError]
    /\ broken' = [broken EXCEPT ![c] = TRUE]
    /\ UNCHANGED <<long, kind, text, gen, pos, cur, frames, closed, send_tokens,
                   recv_tokens, alive, acks, blocked, bcastLog, leaderCalls,
                   fpc, config, fCalls, fFailed, bFailed>>

\* sleep(0) returns and the for loop pulls the next token event.
WsNext(c) ==
    /\ blocked = NoConn /\ kind[c] = "ws" /\ pc[c] = "sleep"
    /\ Pull(c, "send", "close")
    /\ UNCHANGED <<long, kind, text, frames, closed, send_tokens, recv_tokens,
                   alive, acks, blocked, bcastLog, leaderCalls, fpc, config,
                   fCalls, fFailed, broken, bFailed>>

\* AfterClose with the socket closed once more.
AfterCloseAgain == "close"

\* The state of generate_ws after websocket.close(): it returns.
AfterClose == "done"

\* websocket.close() returns, or raises when the client is gone.
WsClose(c) ==
    /\ blocked = NoConn /\ kind[c] = "ws" /\ pc[c] = "close"
    /\ IF alive[c]
         THEN /\ closed' = [closed EXCEPT ![c] = @ + 1]
              /\ pc' = [pc EXCEPT ![c] = AfterClose]
         ELSE /\ closed' = closed
              /\ pc' = [pc EXCEPT ![c] = OnTransportError]
    /\ broken' = [broken EXCEPT ![c] = ~alive[c]]
    /\ UNCHANGED <<long, kind, text, gen, pos, cur, frames, send_tokens,
                   recv_tokens, alive, acks, blocked, bcastLog, leaderCalls,
                   fpc, config, fCalls, fFailed, bFailed>>

\* ---- the follower loop (lines 164-172) ----
\* The engine is outside web.py: a follower's generate call, once started,
\* returns or raises on its own.

\* generator.generate returns; the loop starts over with a fresh buffer and
\* calls broadcast_object_list.
FollowerReturn(f) ==
    /\ fpc[f] = "gen"
    /\ fpc' = [fpc EXCEPT ![f] = "recv"]
    /\ config' = [config EXCEPT ![f] = EmptyConfig]
    /\ UNCHANGED <<long, kind, pc, text, gen, pos, cur, frames, closed,
                   send_tokens, recv_tokens, alive, acks, blocked, bcastLog,
                   leaderCalls, fCalls, fFailed, broken, bFailed>>

\* The state the loop is in after "except: pass".
AfterExcept == "recv"

\* generator.generate raises: "except: pass", and the loop starts over.
FollowerRaise(f) ==
    /\ fpc[f] = "gen"
    /\ fpc' = [fpc EXCEPT ![f] = AfterExcept]
    /\ fFailed' = [fFailed EXCEPT ![f] = @ \union {Len(fCalls[f])}]
    /\ config' = [config EXCEPT ![f] = EmptyConfig]
    /\ UNCHANGED <<long, kind, pc, text, gen, pos, cur, frames, closed,
                   send_tokens, recv_tokens, alive, acks, blocked, bcastLog,
                   leaderCalls, fCalls, broken, bFailed>>

\* broadcast_object_list raises on the follower: "except: pass", and the
\* loop starts over with a fresh buffer and calls broadcast_object_list again.
FollowerBroadcastFail(f) ==
    /\ fpc[f] = "recv"
    /\ fpc' = [fpc EXCEPT ![f] = AfterExcept]
    /\ config' = [config EXCEPT ![f] = EmptyConfig]
    /\ bFailed' = [bFailed EXCEPT ![f] = TRUE]
    /\ UNCHANGED <<long, kind, pc, text, gen, pos, cur, frames, closed,
                   send_tokens, recv_tokens, alive, acks, blocked, bcastLog,
                   leaderCalls, fCalls, fFailed, broken>>

\* ---- the clients ----

\* The WebSocket client sends an acknowledgment frame.
ClientAck(c) ==
    /\ kind[c] = "ws" /\ alive[c] /\ pc[c] \notin Terminal
    /\ pc[c] \notin {"accept", "prompt"}
    /\ acks[c] < MaxPending
    /\ acks' = [acks EXCEPT ![c] = @ + 1]
    /\ UNCHANGED <<long, kind, pc, text, gen, pos, cur, frames, closed,
                   send_tokens, recv_tokens, alive, blocked, bcastLog,
                   leaderCalls, fpc, config, fCalls, fFailed, broken, bFailed>>

\* The client disconnects.
ClientDisconnect(c) ==
    /\ alive[c] /\ pc[c] \notin Terminal
    /\ alive' = [alive EXCEPT ![c] = FALSE]
    /\ UNCHANGED <<long, kind, pc, text, gen, pos, cur, frames, closed,
                   send_tokens, recv_tokens, acks, blocked, bcastLog,
                   leaderCalls, fpc, config, fCalls, fFailed, broken, bFailed>>

Next ==
    \/ \E c \in Conns : HttpJson(c)
    \/ \E c \in Conns : HttpJsonFail(c)
    \/ \E c \in Conns : HttpBroadcast(c)
    \/ \E c \in Conns : SseNext(c)
    \/ \E c \in Conns : SseWrite(c)
    \/ \E c \in Conns : SseWriteEos(c)
    \/ \E c \in Conns : SseCancel(c)
    \/ \E c \in Conns : WsAccept(c)
    \/ \E c \in Conns : WsPrompt(c)
    \/ \E c \in Conns : WsPromptFail(c)
    \/ \E c \in Conns : WsBroadcast(c)
    \/ \E c \in Conns : WsSent(c)
    \/ \E c \in Conns : WsSendFail(c)
    \/ \E c \in Conns : WsAck(c)
    \/ \E c \in Conns : WsAckFail(c)
    \/ \E c \in Conns : WsNext(c)
    \/ \E c \in Conns : WsClose(c)
    \/ \E c \in Conns : LeaderBroadcastFail(c)
    \/ \E f \in Followers : FollowerReturn(f)
    \/ \E f \in Followers : FollowerRaise(f)
    \/ \E f \in Followers : FollowerBroadcastFail(f)
    \/ \E c \in Conns : ClientAck(c)
    \/ \E c \in Conns : ClientDisconnect(c)

Spec == Init /\ [][Next]_vars

\* The leader serving a single connection.
SessionSpec == SessionInit /\ [][Next]_vars

\* A step of the task of connection c on the leader's event loop.
LeaderStep(c) ==
    \/ HttpJson(c) \/ HttpJsonFail(c) \/ HttpBroadcast(c)
    \/ SseNext(c) \/ SseWrite(c) \/ SseWriteEos(c) \/ SseCancel(c)
    \/ WsAccept(c) \/ WsPrompt(c) \/ WsPromptFail(c) \/ WsBroadcast(c)
    \/ WsSent(c) \/ WsSendFail(c) \/ WsAck(c) \/ WsAckFail(c)
    \/ WsNext(c) \/ WsClose(c) \/ LeaderBroadcastFail(c)

\* The single connection, with the event loop running every task that can
\* run and a client that goes on acknowledging while it is connected.
FairSessionSpec ==
    /\ SessionSpec
    /\ \A c \in Conns : WF_vars(LeaderStep(c))
    /\ \A c \in Conns : WF_vars(ClientAck(c))

\* ---- notions the properties are stated with ----

\* The Command of connection c has been broadcast.
Broadcasted(c) == \E k \in DOMAIN bcastLog : bcastLog[k].conn = c

\* The leader's generation for the broadcast Command of c is not finished:
\* the task of c is alive and its generator is not started or not exhausted.
LeaderUnfinished(c) ==
    /\ Broadcasted(c)
    /\ pc[c] \notin Terminal
    /\ gen[c] \in {"none", "running"}

\* Round k (the k-th broadcast) is still running on follower f.
FollowerUnfinished(f, k) == fpc[f] = "gen" /\ Len(fCalls[f]) = k

\* Round k is in flight on some rank.
RoundInFlight(k) ==
    \/ LeaderUnfinished(bcastLog[k].conn)
    \/ \E f \in Followers : FollowerUnfinished(f, k)

Gap(c) == send_tokens[c] - recv_tokens[c]

\* C1: at most one generation round is in flight at any time: the leader is
\* not inside a Broadcast call while a round broadcast earlier is unfinished
\* on some rank, and no two broadcast rounds are unfinished together.
C1_OneRoundInFlight ==
    /\ blocked # NoConn => \A k \in DOMAIN bcastLog : ~RoundInFlight(k)
    /\ Cardinality({k \in DOMAIN bcastLog : RoundInFlight(k)}) <= 1

\* C2: on the leader at most one live connection has a generation call that
\* is started and not exhausted.
C2_OneCallOnLeader ==
    Cardinality({c \in Conns : gen[c] = "running" /\ pc[c] \notin Terminal}) <= 1

\* C3 as stated: send_tokens - recv_tokens never exceeds 10.
C3_GapAtMost10 ==
    \A c \in Conns : kind[c] = "ws" => Gap(c) <= MaxUnacked

\* C3 amended: send_tokens - recv_tokens never exceeds 11, and it is 11 only
\* while the session is suspended reading an acknowledgment or has failed
\* reading one.
C3_GapAtMost11 ==
    \A c \in Conns : kind[c] = "ws" =>
        /\ Gap(c) <= MaxUnacked + 1
        /\ Gap(c) = MaxUnacked + 1 => pc[c] \in {"ack", "terr"}

\* A session that has sent an 11th frame without any acknowledgment read.
C3_Witness ==
    \E c \in Conns : kind[c] = "ws" /\ Gap(c) = MaxUnacked + 1 /\ pc[c] = "ack"

\* C4: a follower whose generation call for round k raised is not back in
\* the Broadcast receive (nor in a later round) while the leader's generation
\* for round k is unfinished.
C4_FailedFollowerWaits ==
    \A f \in Followers : \A k \in fFailed[f] :
        (fpc[f] = "recv" \/ Len(fCalls[f]) > k)
            => ~LeaderUnfinished(bcastLog[k].conn)

\* C5: when a session has ended on a client disconnect in mid-stream, the
\* leader's generation sequence for its Command has been fully consumed (an
\* ended task never consumes it later).
C5_RoundCompletes ==
    \A c \in Conns :
        Broadcasted(c) /\ pc[c] = "terr" /\ pos[c] > 0 => gen[c] = "exhausted"

\* C6: the arguments of every follower's k-th generation call are, field for
\* field, the arguments of the leader's generation call for the request of
\* the k-th broadcast, on the HTTP and on the WebSocket path.
C6_SameCommandOnEveryRank ==
    \A k \in DOMAIN bcastLog : \A f \in Followers :
        /\ k \in DOMAIN fCalls[f]
        /\ fCalls[f][k] = LeaderArgs(text[bcastLog[k].conn])
        /\ \A j \in DOMAIN leaderCalls :
               leaderCalls[j].conn = bcastLog[k].conn
                   => fCalls[f][k] = leaderCalls[j].args

\* Both an HTTP and a WebSocket request, with different prompts, have been
\* broadcast and their generation calls started on the leader.
C6_Witness ==
    /\ Len(bcastLog) = 2 /\ Len(leaderCalls) = 2
    /\ kind[bcastLog[1].conn] # kind[bcastLog[2].conn]
    /\ text[1] # text[2]
    /\ \A f \in Followers : Len(fCalls[f]) = 2

\* C7: the k-th generation call started on any rank is for the k-th Command
\* broadcast.
C7_CallsInBroadcastOrder ==
    /\ \A k \in DOMAIN leaderCalls : leaderCalls[k].conn = bcastLog[k].conn
    /\ \A f \in Followers : \A k \in DOMAIN fCalls[f] :
           fCalls[f][k] = LeaderArgs(text[bcastLog[k].conn])

\* The token frames written to the transport of c, in order.
Delivered(c) == SelectSeq(frames[c], LAMBDA fr : fr # EosFrame)

\* The frame of the i-th token event of the generation call of c.
FrameOf(c, i) ==
    IF kind[c] = "http" THEN SseFrame(TokenEvent(c, i))
                        ELSE WsFrame(TokenEvent(c, i))

\* C8: the token frames delivered on a connection are the frames of the
\* token events its generation call produced, in generation order, each
\* once: the i-th frame is that of the i-th event, only the event just
\* pulled can be unsent, and a session that ended cleanly delivered all.
C8_FramesAreEvents ==
    \A c \in Conns :
        LET d == Delivered(c) IN
        /\ d = [i \in 1..Len(d) |-> FrameOf(c, i)]
        /\ Len(d) \in {pos[c], pos[c] - 1}
        /\ pc[c] \in {"sleep", "ack", "close", "yieldeos", "done", "gerr"}
               => Len(d) = pos[c]

\* An HTTP and a WebSocket connection stream at the same time and each has
\* delivered two frames.
C8_Witness ==
    \E c, d \in Conns :
        /\ kind[c] = "http" /\ kind[d] = "ws"
        /\ pc[c] = "sleep" /\ pc[d] = "sleep"
        /\ Len(frames[c]) = 2 /\ Len(frames[d]) = 2

\* Number of sentinel frames written on c.
EosCount(c) == Len(frames[c]) - Len(Delivered(c))

\* C9: on SSE the sentinel is written at most once, only as the last frame
\* and after the frames of all token events of an exhausted sequence, and
\* exactly once when the stream has ended at exhaustion.
C9_EosOnceAtEnd ==
    \A c \in Conns : kind[c] = "http" =>
        /\ EosCount(c) <= 1
        /\ EosCount(c) = 1 =>
              /\ frames[c][Len(frames[c])] = EosFrame
              /\ gen[c] = "exhausted"
              /\ Len(frames[c]) = pos[c] + 1
        /\ pc[c] = "done" <=> EosCount(c) = 1
        /\ gen[c] = "exhausted" => pc[c] \in {"yieldeos", "done", "terr"}

\* An SSE stream of two token frames ended with the sentinel.
C9_Witness ==
    \E c \in Conns :
        kind[c] = "http" /\ pc[c] = "done" /\ Len(frames[c]) = 3

\* The session state of connection c.
Session(c) ==
    <<pc[c], gen[c], pos[c], cur[c], frames[c], closed[c], send_tokens[c],
      recv_tokens[c]>>

\* C10: once a transport operation of a session has raised, the session
\* pulls no further token event, writes nothing more and stays ended; and
\* the step in which it raises changes no other connection's session.
C10_StopsOnTransportError ==
    [][\A c \in Conns :
         /\ broken[c] =>
               /\ pos'[c] = pos[c] /\ gen'[c] = gen[c]
               /\ frames'[c] = frames[c] /\ closed'[c] = closed[c]
               /\ pc'[c] = pc[c] /\ pc[c] = "terr"
         /\ ~broken[c] /\ broken'[c] =>
               \A d \in Conns \ {c} : Session(d)' = Session(d)]_vars

\* A session has ended in mid-stream on a transport error and the session
\* of another connection has run to its end.
C10_Witness ==
    \E c, d \in Conns :
        /\ c # d /\ broken[c] /\ gen[c] = "running" /\ Len(frames[c]) > 0
        /\ pc[d] = "done" /\ Len(frames[d]) > 0

\* C11: once the leader's generation sequence of a connection has raised,
\* its task has ended on that failure, no sentinel has been written and no
\* close issued, and no further frame is written.
C11_EngineFailurePropagates ==
    /\ [](\A c \in Conns : gen[c] = "raised" =>
              /\ pc[c] = "gerr"
              /\ EosCount(c) = 0
              /\ closed[c] = 0)
    /\ [][\A c \in Conns : gen[c] = "raised" =>
              /\ frames'[c] = frames[c]
              /\ pos'[c] = pos[c]]_vars

\* The generation of a connection raised in mid-stream, after two frames.
C11_Witness ==
    \E c \in Conns : gen[c] = "raised" /\ Len(frames[c]) = 2 /\ alive[c]
\* C12: a request that fails before dispatch (malformed HTTP body, WebSocket
\* client gone before its prompt) has no Command broadcast and no generation
\* started for it, and the failing step changes nothing of the broadcast
\* log, the leader's calls or any follower.
C12_NoDispatchOnRequestError ==
    /\ [](\A c \in Conns : pc[c] = "rerr" =>
              /\ ~Broadcasted(c)
              /\ blocked # c
              /\ gen[c] = "none"
              /\ \A j \in DOMAIN leaderCalls : leaderCalls[j].conn # c)
    /\ [][\A c \in Conns : pc[c] # "rerr" /\ pc'[c] = "rerr" =>
              UNCHANGED <<bcastLog, leaderCalls, blocked, fpc, config,
                          fCalls>>]_vars

\* An HTTP and a WebSocket request have both failed before dispatch and
\* every follower is still waiting for its first broadcast.
C12_Witness ==
    /\ \E c, d \in Conns :
           /\ kind[c] = "http" /\ kind[d] = "ws"
           /\ pc[c] = "rerr" /\ pc[d] = "rerr"
    /\ bcastLog = <<>>
    /\ \A f \in Followers : fpc[f] = "recv" /\ fCalls[f] = <<>>
\* C13: on WebSocket there is one frame per token event pulled (the one
\* just pulled may be unsent) and no sentinel; the socket is closed at most
\* once, only when the sequence is exhausted and the frame of every event
\* has been sent; after the close no frame is written and nothing is closed
\* again.
C13_WsFramesThenOneClose ==
    /\ [](\A c \in Conns : kind[c] = "ws" =>
              /\ EosCount(c) = 0
              /\ Len(frames[c]) \in {pos[c], pos[c] - 1}
              /\ closed[c] <= 1
              /\ closed[c] = 1 <=> pc[c] = "done"
              /\ closed[c] = 1 =>
                    gen[c] = "exhausted" /\ Len(frames[c]) = pos[c])
    /\ [][\A c \in Conns : kind[c] = "ws" /\ closed[c] >= 1 =>
              frames'[c] = frames[c] /\ closed'[c] = closed[c]]_vars

\* A WebSocket session has sent the frames of three token events and closed.
C13_Witness ==
    \E c \in Conns :
        kind[c] = "ws" /\ closed[c] = 1 /\ Len(frames[c]) = 3 /\ pos[c] = 3
\* C14: in a WebSocket session every step that counts an acknowledgment
\* leaves the gap at most 10, the session leaves the acknowledgment loop
\* only with the gap at most 10, and no step pulls a token event or writes
\* a frame from a state in which the gap exceeds 10.
C14_BlocksUntilGapAtMost10 ==
    [][\A c \in Conns : kind[c] = "ws" =>
         /\ recv_tokens'[c] # recv_tokens[c] => Gap(c)' <= MaxUnacked
         /\ pc[c] = "ack" /\ pc'[c] = "sleep" => Gap(c)' <= MaxUnacked
         /\ pc'[c] \in {"sleep", "send", "close"} => Gap(c)' <= MaxUnacked
         /\ pos'[c] # pos[c] \/ frames'[c] # frames[c]
                => Gap(c) <= MaxUnacked]_vars

\* A session that was blocked with a gap of 11 has processed an
\* acknowledgment and is about to pull the next token event with a gap of 10.
C14_Witness ==
    \E c \in Conns :
        /\ kind[c] = "ws" /\ pc[c] = "sleep"
        /\ recv_tokens[c] = 1 /\ Gap(c) = MaxUnacked
\* C15: a WebSocket session whose client stays connected and keeps
\* acknowledging, and whose generation is started and does not fail
\* (its Broadcast call did not raise), eventually has sent
\* the frame of every token event and closed the socket; a session that
\* ended with at most 10 token events has read no acknowledgment.
C15_WsSessionTerminates ==
    \A c \in Conns :
        /\ [](kind[c] = "ws" /\ pc[c] = "done" /\ pos[c] <= MaxUnacked
                 => recv_tokens[c] = 0)
        /\ <>(\/ kind[c] # "ws"
              \/ ~alive[c]
              \/ gen[c] = "raised"
              \/ pc[c] = "berr"
              \/ /\ pc[c] = "done" /\ closed[c] = 1
                 /\ gen[c] = "exhausted" /\ Len(frames[c]) = pos[c])

\* A session of more than 10 token events has read acknowledgments, sent
\* every frame and closed.
C15_Witness ==
    \E c \in Conns :
        /\ kind[c] = "ws" /\ pc[c] = "done" /\ alive[c]
        /\ pos[c] > MaxUnacked /\ Len(frames[c]) = pos[c]
        /\ recv_tokens[c] = pos[c] - MaxUnacked
\* Number of broadcasts of the Command of connection c.
BroadcastCount(c) ==
    Cardinality({k \in DOMAIN bcastLog : bcastLog[k].conn = c})

\* Number of probs_stream calls of connection c.
CallCount(c) ==
    Cardinality({j \in DOMAIN leaderCalls : leaderCalls[j].conn = c})

\* C16: a request whose prompt has been read is inside its one Broadcast
\* call, or that call has raised and ended the request, or its Command has
\* been broadcast exactly once; a local generation
\* call is started at most once per request and only for a request whose
\* broadcast has completed, on either transport.
C16_OneBroadcastBeforeGeneration ==
    \A c \in Conns :
        /\ BroadcastCount(c) <= 1 /\ CallCount(c) <= 1
        /\ text[c] # None =>
              \/ pc[c] = "bcast" /\ blocked = c /\ BroadcastCount(c) = 0
              \/ pc[c] = "berr" /\ blocked # c /\ BroadcastCount(c) = 0
              \/ pc[c] \notin {"bcast", "berr"} /\ BroadcastCount(c) = 1
        /\ text[c] = None => BroadcastCount(c) = 0
        /\ gen[c] # "none" \/ pos[c] > 0 \/ CallCount(c) > 0 =>
              /\ BroadcastCount(c) = 1
              /\ CallCount(c) = 1
              /\ \E k \in DOMAIN bcastLog :
                     /\ bcastLog[k].conn = c
                     /\ bcastLog[k].cmd[1] = text[c]

\* An HTTP and a WebSocket request have each been broadcast once and have
\* started their generation calls.
C16_Witness ==
    \E c, d \in Conns :
        /\ kind[c] = "http" /\ kind[d] = "ws"
        /\ gen[c] = "running" /\ gen[d] = "running"
        /\ BroadcastCount(c) = 1 /\ BroadcastCount(d) = 1
\* C17: a follower starts a generation call only as its Broadcast receive
\* returns, from a fresh 4-slot buffer, one call per receive, with all four
\* arguments taken from the Command of that one broadcast; while the call
\* runs the follower is not in a receive, and a further receive happens only
\* after the call has returned or failed.
C17_OneCommandPerIteration ==
    /\ [](\A f \in Followers :
            /\ fpc[f] \in {"recv", "gen"}
            /\ Len(config[f]) = 4
            /\ Len(fCalls[f]) = Len(bcastLog)
            /\ \A k \in DOMAIN fCalls[f] :
                   /\ fCalls[f][k].prompt = bcastLog[k].cmd[1]
                   /\ fCalls[f][k].max_gen_len = bcastLog[k].cmd[2]
                   /\ fCalls[f][k].temperature = bcastLog[k].cmd[3]
                   /\ fCalls[f][k].top_p = bcastLog[k].cmd[4]
            /\ fpc[f] = "recv" => config[f] = EmptyConfig
            /\ fpc[f] = "gen" =>
                   /\ bcastLog # << >>
                   /\ config[f] = bcastLog[Len(bcastLog)].cmd)
    /\ [][\A f \in Followers :
            /\ bcastLog' # bcastLog =>
                   /\ fpc[f] = "recv" /\ config[f] = EmptyConfig
                   /\ fpc'[f] = "gen"
                   /\ Len(fCalls'[f]) = Len(fCalls[f]) + 1
            /\ fCalls'[f] # fCalls[f] =>
                   /\ fpc[f] = "recv" /\ Len(bcastLog') = Len(bcastLog) + 1
            /\ fpc[f] = "gen" => fCalls'[f] = fCalls[f] /\ bcastLog' = bcastLog
         ]_vars

\* A follower has run two iterations, for Commands with different prompts,
\* and is inside the generation call of the second.
C17_Witness ==
    \E f \in Followers :
        /\ Len(fCalls[f]) = 2 /\ fpc[f] = "gen"
        /\ fCalls[f][1].prompt # fCalls[f][2].prompt
        /\ config[f][1] = fCalls[f][2].prompt
\* C18: after a Broadcast call has raised on a follower, that follower
\* starts no generation call for a further Command; after one has raised in
\* a handler on the leader, the leader broadcasts no Command, starts no
\* generation call and writes no frame.
C18_BroadcastFailureIsFatal ==
    [][/\ \A f \in Followers : bFailed[f] => fCalls'[f] = fCalls[f]
       /\ (\E c \in Conns : pc[c] = "berr") =>
              /\ bcastLog' = bcastLog
              /\ leaderCalls' = leaderCalls
              /\ frames' = frames]_vars

\* max(0, send_tokens - 10) of connection c.
AckDue(c) ==
    IF send_tokens[c] > MaxUnacked THEN send_tokens[c] - MaxUnacked ELSE 0

\* C19: in a WebSocket session recv_tokens <= max(0, send_tokens - 10) in
\* every state, with equality whenever the session is about to pull the next
\* token event; an acknowledgment is read only while send_tokens - recv_tokens
\* exceeds 10, one at a time and at most one per frame sent, and none is read
\* during the first 10 frames however many the client has sent.
C19_AckOnlyBeyondTen ==
    /\ [](\A c \in Conns : kind[c] = "ws" =>
            /\ recv_tokens[c] <= AckDue(c)
            /\ recv_tokens[c] >= AckDue(c) - 1
            /\ pc[c] \in {"sleep", "send", "close", "done"}
                   => recv_tokens[c] = AckDue(c)
            /\ send_tokens[c] <= MaxUnacked => recv_tokens[c] = 0
            /\ pc[c] = "ack" => send_tokens[c] - recv_tokens[c] > MaxUnacked)
    /\ [][\A c \in Conns : kind[c] = "ws" =>
            /\ recv_tokens'[c] # recv_tokens[c] =>
                   /\ recv_tokens'[c] = recv_tokens[c] + 1
                   /\ acks'[c] = acks[c] - 1
                   /\ send_tokens[c] - recv_tokens[c] > MaxUnacked
                   /\ send_tokens'[c] = send_tokens[c]
                   /\ pc'[c] = "sleep"
            /\ acks'[c] < acks[c] =>
                   /\ send_tokens[c] > MaxUnacked
                   /\ recv_tokens'[c] = recv_tokens[c] + 1
         ]_vars

\* A session has sent 12 frames and read 2 acknowledgments, and is about to
\* pull the next token event.
C19_Witness ==
    \E c \in Conns :
        /\ kind[c] = "ws" /\ pc[c] = "sleep"
        /\ send_tokens[c] = MaxUnacked + 2 /\ recv_tokens[c] = 2
====
